---- MODULE Spec2Model ----
(***************************************************************************)
(* Model of tools/shealth_steps_pipeline.py: the pipeline that rebuilds a  *)
(* daily step timeline from undated Samsung Health export fragments.       *)
(*                                                                         *)
(* Representation of the Python values:                                    *)
(*   datetime (always midnight here)  -> its proleptic Gregorian ordinal   *)
(*                                       (datetime.toordinal())            *)
(*   "%Y-%m-%d" string                -> the triple <<year, month, day>>;  *)
(*                                       string order is DateLess          *)
(*   distance_km (a float rounded to 2 decimals) -> hundredths of a km     *)
(*   a dict                           -> a function on its key set         *)
(*   a list                           -> a sequence; Python index i is     *)
(*                                       position i + 1                    *)
(*   None as an index                 -> None (= -1)                       *)
(***************************************************************************)
EXTENDS Integers, Sequences, FiniteSets, TLC

VARIABLES
    pc,            \* position in main() / assign_dates_map()
    cal_start,     \* create_blank_timeline's cal_start (ordinal)
    cal_end,       \* create_blank_timeline's cal_end (ordinal)
    timeline,      \* main's timeline: list of rows [date, steps, distance_km]
    records,       \* the ordered records returned by discover_all_records
    ci,            \* assign_dates_map: position in "for c in CLUSTERS" (1-based)
    search_from,   \* assign_dates_map: search_from
    anchors,       \* assign_dates_map: anchors, index -> datetime
    calls,         \* history: one entry per find_sequence_index_after call
    idx_to_date,   \* assign_dates_map: idx_to_date, index -> datetime
    date_map,      \* main's date_map (assign_dates_map's result)
    tree,          \* discovery: the directories and files under raw_root
    files,         \* discover_all_records: files, in discovery order
    fi,            \* discover_all_records: position in "for fp in files"
    parsed         \* discover_all_records: records before the sort

vars == <<pc, cal_start, cal_end, timeline, records, ci, search_from, anchors,
          calls, idx_to_date, date_map, tree, files, fi, parsed>>

None == -1

EmptyMap == [x \in {} |-> 0]

Min(S) == CHOOSE x \in S : \A y \in S : x <= y
Max(S) == CHOOSE x \in S : \A y \in S : x >= y

\* Python's dict assignment of every item of g into f
Update(f, g) ==
    [x \in DOMAIN f \cup DOMAIN g |-> IF x \in DOMAIN g THEN g[x] ELSE f[x]]

-----------------------------------------------------------------------------
(* Dates: datetime.strptime(s, "%Y-%m-%d") and dt.strftime("%Y-%m-%d")      *)

\* strptime: <<y, m, d>> -> ordinal (days since 0000-12-31, Gregorian)
strptime(ds) ==
    LET y   == IF ds[2] <= 2 THEN ds[1] - 1 ELSE ds[1]
        era == y \div 400
        yoe == y - era * 400
        mp  == IF ds[2] > 2 THEN ds[2] - 3 ELSE ds[2] + 9
        doy == (153 * mp + 2) \div 5 + ds[3] - 1
        doe == yoe * 365 + yoe \div 4 - yoe \div 100 + doy
    IN  era * 146097 + doe - 305

\* strftime: ordinal -> <<y, m, d>>
strftime(dt) ==
    LET z   == dt + 305
        era == z \div 146097
        doe == z - era * 146097
        yoe == (doe - doe \div 1460 + doe \div 36524 - doe \div 146096) \div 365
        doy == doe - (365 * yoe + yoe \div 4 - yoe \div 100)
        mp  == (5 * doy + 2) \div 153
        d   == doy - (153 * mp + 2) \div 5 + 1
        m   == IF mp < 10 THEN mp + 3 ELSE mp - 9
        y   == yoe + era * 400
    IN  <<IF m <= 2 THEN y + 1 ELSE y, m, d>>

\* order of two "%Y-%m-%d" strings (4-digit years)
DateLess(a, b) ==
    \/ a[1] < b[1]
    \/ a[1] = b[1] /\ a[2] < b[2]
    \/ a[1] = b[1] /\ a[2] = b[2] /\ a[3] < b[3]

-----------------------------------------------------------------------------
(* CONFIG                                                                   *)

\* steps -> km, rounded to 2 decimals: round(steps_to_km(steps), 2) in
\* hundredths of a km.  The polynomial A + B*steps + C*steps^2 is evaluated in
\* units of 1e-7 km with 32-bit intermediate values (steps < 26000).
steps_to_km_round2(steps) ==
    LET a  == 1290915
        b  == 5899 * steps + (79242 * steps) \div 100000
        sq == steps * steps
        q  == sq \div 1000
        r  == sq % 1000
        c  == q * 245 + (r * 245) \div 1000 + (q * 535) \div 1000
              + (q * 812) \div 1000000
        y  == a + b + c
    IN  IF y < 0 THEN 0 ELSE (y + 50000) \div 100000

BAD_DATE == <<1970, 1, 1>>

CLUSTERS ==
    << [start_date |-> <<2021, 12, 14>>, steps_seq |-> <<4702, 6105, 10453>>],
       [start_date |-> <<2023, 5, 16>>,  steps_seq |-> <<2470, 9953, 5412>>],
       [start_date |-> <<2025, 9, 15>>,  steps_seq |-> <<4964, 1247, 2865>>] >>

CAL_START ==
    LET S == {CLUSTERS[k].start_date : k \in DOMAIN CLUSTERS}
    IN  strptime(CHOOSE a \in S : \A b \in S : a = b \/ DateLess(a, b))

CAL_END ==
    Max({strptime(CLUSTERS[k].start_date) + 2 : k \in DOMAIN CLUSTERS})

-----------------------------------------------------------------------------
(* JSON values of a fragment, as json.load returns them                     *)
(*   a number                  Num(n) when whole, Frac(n, q) for n + q/4;   *)
(*                             true and false are Bool(b)                   *)
(*   a string                  Str(iso, digits): iso is the date that       *)
(*                             fromisoformat reads from the part before     *)
(*                             "T" (NoDate when it raises), digits the      *)
(*                             value of int(x) when x.isdigit() (else None) *)
(*   null, a list, a dict      Null, List(items), Dict(f)                   *)
(*   a file that cannot be read or decoded has the data Unreadable          *)

Num(n) == [t |-> "num", v |-> n, q |-> 0]
\* the number n + q/4 that is not whole (q in 1..3), n its floor
Frac(n, q) == [t |-> "num", v |-> n, q |-> q]
\* true and false are of the int subclass bool: they pass isinstance(x, (int,
\* float)) and count as 1 and 0
Bool(b) == Num(IF b THEN 1 ELSE 0)
Str(iso, digits) == [t |-> "str", iso |-> iso, digits |-> digits]
Null == [t |-> "null"]
List(items) == [t |-> "list", items |-> items]
Dict(f) == [t |-> "dict", f |-> f]
Unreadable == [t |-> "unreadable"]

\* no date: the None of try_parse_date_like and of raw_date
NoDate == <<>>

-----------------------------------------------------------------------------
(* HELPERS                                                                  *)

\* x > 10_000_000_000, written with 32-bit numbers
above_ms_threshold(x) ==
    \/ x \div 1000 > 10000000
    \/ x \div 1000 = 10000000 /\ x % 1000 > 0

\* datetime.fromtimestamp(secs, tz=utc).strftime('%Y-%m-%d')
date_of_seconds(secs) == strftime(719163 + secs \div 86400)

ms_to_date(ms) == date_of_seconds(ms \div 1000)

try_parse_date_like(x) ==
    IF x.t = "null" THEN NoDate
    ELSE IF x.t = "num"
         THEN IF above_ms_threshold(x.v) THEN ms_to_date(x.v)
              ELSE date_of_seconds(x.v)
    ELSE IF x.t = "str"
         THEN IF x.iso # NoDate THEN strftime(strptime(x.iso))
              ELSE IF x.digits # None
                   THEN \* ms_to_date(val if val > 10_000_000_000 else val * 1000)
                        IF above_ms_threshold(x.digits) THEN ms_to_date(x.digits)
                        ELSE date_of_seconds(x.digits)
              ELSE NoDate
    ELSE NoDate

DateKeys ==
    <<"mBestStepsDate", "mStartTime", "start_time", "day_time", "time", "date",
      "day_start">>

\* the loop of extract_date_from_entry from the k-th key on
RECURSIVE extract_date_from(_, _)
extract_date_from(f, k) ==
    IF k > Len(DateKeys) THEN NoDate
    ELSE LET ds == IF DateKeys[k] \in DOMAIN f
                   THEN try_parse_date_like(f[DateKeys[k]])
                   ELSE NoDate
         IN  IF ds # NoDate THEN ds ELSE extract_date_from(f, k + 1)

extract_date_from_entry(f) == extract_date_from(f, 1)

\* a string (a path) is the sequence of its characters' ASCII codes; a < b
\* at the first place where they differ, or a is a proper prefix of b
StrLess(a, b) ==
    LET differ == {i \in 1..Min({Len(a), Len(b)}) : a[i] # b[i]}
    IN  IF differ = {} THEN Len(a) < Len(b)
        ELSE a[Min(differ)] < b[Min(differ)]

\* the places where a path is cut: before it, after it and at every "/"
cut_points(path) ==
    {0, Len(path) + 1} \cup {i \in 1..Len(path) : path[i] = 47}

\* the k-th least number of the set S
nth(S, k) == CHOOSE x \in S : Cardinality({y \in S : y < x}) = k - 1

\* os.path.split taken to the end: the names a path is made of
components(path) ==
    LET S == cut_points(path)
    IN  [k \in 1..(Cardinality(S) - 1) |->
            SubSeq(path, nth(S, k) + 1, nth(S, k + 1) - 1)]

\* glob.has_magic: the name holds "*", "?" or "["
has_magic(s) == \E i \in 1..Len(s) : s[i] \in {42, 63, 91}

\* glob._ishidden: the name begins with "."
_ishidden(name) == Len(name) > 0 /\ name[1] = 46

\* glob._isrecursive: the name is "**"
_isrecursive(pattern) == pattern = <<42, 42>>

\* fnmatch.translate at the "[" of pat[j]: the place of the "]" that closes
\* the class (a "!" and then a "]" right after the "[" do not close it), 0
\* when there is none and the "[" stands for itself
class_end(pat, j) ==
    LET a == IF j + 1 <= Len(pat) /\ pat[j + 1] = 33 THEN j + 2 ELSE j + 1
        b == IF a <= Len(pat) /\ pat[a] = 93 THEN a + 1 ELSE a
        E == {e \in b..Len(pat) : pat[e] = 93}
    IN  IF E = {} THEN 0 ELSE Min(E)

\* fnmatch.translate on the text m of a class: the places of the "-" that
\* make a range, found from the place s on.  The first member is never such a
\* "-", nor are the two characters after one, nor is a "-" at the end.
RECURSIVE range_hyphens(_, _)
range_hyphens(m, s) ==
    LET H == {k \in s..Len(m) : m[k] = 45}
    IN  IF H = {} THEN {}
        ELSE IF Min(H) = Len(m) THEN {}
        ELSE {Min(H)} \cup range_hyphens(m, Min(H) + 3)

\* the character c against the class [stuff], as the regular expression of
\* fnmatch.translate reads it.  A range whose ends are out of order is taken
\* out with its three characters; of what is left, a leading "!" negates
\* (a "-" right after it then stands for itself), the ranges hold their
\* characters and every other character stands for itself.
class_matches(c, stuff) ==
    LET Rg      == range_hyphens(stuff, IF stuff[1] = 33 THEN 3 ELSE 2)
        dropped == {k \in Rg : stuff[k - 1] > stuff[k + 1]}
        kept    == {k \in 1..Len(stuff) :
                       \A d \in dropped : k < d - 1 \/ k > d + 1}
        neg     == kept # {} /\ stuff[Min(kept)] = 33
        ranges  == {k \in Rg \ dropped : ~(neg /\ k = Min(kept) + 1)}
        member  ==
            \/ \E k \in ranges : stuff[k - 1] <= c /\ c <= stuff[k + 1]
            \/ \E k \in kept : /\ k \notin ranges
                               /\ (k - 1) \notin ranges
                               /\ (k + 1) \notin ranges
                               /\ ~(neg /\ k = Min(kept))
                               /\ stuff[k] = c
    IN  member # neg

\* the regular expression of fnmatch.translate(pat) from pat[j] on, against
\* name from name[i] on
RECURSIVE fnmatch_at(_, _, _, _)
fnmatch_at(name, i, pat, j) ==
    IF j > Len(pat) THEN i > Len(name)
    ELSE IF pat[j] = 42
         THEN \E k \in i..(Len(name) + 1) : fnmatch_at(name, k, pat, j + 1)
    ELSE IF i > Len(name) THEN FALSE
    ELSE IF pat[j] = 63 THEN fnmatch_at(name, i + 1, pat, j + 1)
    ELSE IF pat[j] = 91 /\ class_end(pat, j) # 0
         THEN /\ class_matches(name[i],
                               SubSeq(pat, j + 1, class_end(pat, j) - 1))
              /\ fnmatch_at(name, i + 1, pat, class_end(pat, j) + 1)
    ELSE pat[j] = name[i] /\ fnmatch_at(name, i + 1, pat, j + 1)

fnmatch(name, pat) == fnmatch_at(name, 1, pat, 1)

\* one name of a pattern against one name of a directory: glob._glob0 (the
\* name itself) when the pattern has no magic, else glob._glob1 (fnmatch on the
\* listing, hidden names left out unless the pattern is hidden)
component_matches(name, pattern) ==
    IF has_magic(pattern)
    THEN (_ishidden(pattern) \/ ~_ishidden(name)) /\ fnmatch(name, pattern)
    ELSE name = pattern

\* glob._iglob with recursive=True: how many times the path of the names
\* c[i..] is yielded for the pattern of the names p[j..].  "**" stands for
\* no directory or for any chain of directories that are not hidden
\* (glob._glob2); the pattern does not end with "**".
RECURSIVE glob_ways(_, _, _, _)
glob_ways(c, i, p, j) ==
    IF j > Len(p) THEN (IF i > Len(c) THEN 1 ELSE 0)
    ELSE IF _isrecursive(p[j])
         THEN glob_ways(c, i, p, j + 1)
              + (IF i <= Len(c) /\ ~_ishidden(c[i])
                 THEN glob_ways(c, i + 1, p, j) ELSE 0)
    ELSE IF i > Len(c) THEN 0
    ELSE IF component_matches(c[i], p[j]) THEN glob_ways(c, i + 1, p, j + 1)
    ELSE 0

\* "/jsons/com.samsung.shealth.tracker.pedometer_day_summary"
PedoTail ==
    <<47, 106, 115, 111, 110, 115, 47, 99, 111, 109, 46, 115, 97, 109, 115,
      117, 110, 103, 46, 115, 104, 101, 97, 108, 116, 104, 46, 116, 114,
      97, 99, 107, 101, 114, 46, 112, 101, 100, 111, 109, 101, 116, 101,
      114, 95, 100, 97, 121, 95, 115, 117, 109, 109, 97, 114, 121>>

\* ".binning_data.json"
BinningTail ==
    <<46, 98, 105, 110, 110, 105, 110, 103, 95, 100, 97, 116, 97, 46, 106,
      115, 111, 110>>

\* raw_root, "r"
RawRoot == <<114>>

\* dirs.sort(): increasing order, the path d n[d] times
RECURSIVE sorted_dirs(_, _)
sorted_dirs(S, n) ==
    IF S = {} THEN <<>>
    ELSE LET m == CHOOSE x \in S : \A y \in S : x = y \/ StrLess(x, y)
         IN  [i \in 1..n[m] |-> m] \o sorted_dirs(S \ {m}, n)

\* the times glob yields each path of paths for the pattern
ways_of_dirs(paths, pattern) ==
    [d \in paths |-> glob_ways(components(d), 1, pattern, 1)]

\* glob(raw_root/**/jsons/com.samsung.shealth.tracker.pedometer_day_summary)
\* on the tree t = [dirs, files], kept when os.path.isdir, sorted
find_all_pedometer_dirs(t) ==
    LET n == ways_of_dirs({x.path : x \in t.dirs},
                 components(RawRoot) \o <<<<42, 42>>>>
                     \o components(Tail(PedoTail)))
    IN  sorted_dirs({d \in DOMAIN n : n[d] > 0}, n)

\* os.path.getmtime(p) is [s, ms]: s seconds and ms thousandths of a second
mtime_less(a, b) == a.s < b.s \/ (a.s = b.s /\ a.ms < b.ms)

\* the key of files.sort(key=lambda p: (os.path.getmtime(p), p))
file_before(f, g) ==
    \/ mtime_less(f.mtime, g.mtime)
    \/ f.mtime = g.mtime /\ StrLess(f.path, g.path)

\* files.sort(...) on the files found: increasing order, the file f n[f] times
RECURSIVE sorted_files(_, _)
sorted_files(S, n) ==
    IF S = {} THEN <<>>
    ELSE LET m == CHOOSE x \in S : \A y \in S : x = y \/ file_before(x, y)
         IN  [i \in 1..n[m] |-> m] \o sorted_files(S \ {m}, n)

\* what glob can yield from the tree t: its files, and its directories, which
\* open() refuses to read
entries_of(t) ==
    t.files \cup {[path |-> x.path, mtime |-> x.mtime, data |-> Unreadable] :
                     x \in t.dirs}

\* the times glob yields each entry of es for the pattern
ways_of_files(es, pattern) ==
    [f \in es |-> glob_ways(components(f.path), 1, pattern, 1)]

\* glob(pedo_dir/**/*.binning_data.json): pedo_dir d is read as a pattern, so
\* its names that hold "*", "?" or "[" are matched with fnmatch; the files and
\* directories found at any depth, sorted
find_all_binning_files_in_dir(t, d) ==
    LET n == ways_of_files(entries_of(t),
                 components(d) \o <<<<42, 42>>, <<42>> \o BinningTail>>)
    IN  sorted_files({f \in DOMAIN n : n[f] > 0}, n)

-----------------------------------------------------------------------------
(* EXTRACTION                                                               *)

StepKeysBins == <<"mStepCount", "mBestSteps", "count", "steps", "value">>
StepKeysObject == <<"mBestSteps", "mStepCount", "count", "steps", "value">>
DistanceKeys == <<"mDistance", "distance">>

\* "k in entry and isinstance(entry[k], (int, float)) and entry[k] > 0"
positive_number(f, k) ==
    /\ k \in DOMAIN f
    /\ f[k].t = "num"
    /\ (f[k].v > 0 \/ (f[k].v = 0 /\ f[k].q > 0))

\* int(x) of a positive number x
int_of(x) == x.v

\* float(x) of a positive number x, in quarters of the unit
float_of(x) == 4 * x.v + x.q

\* the first key of keys[k..] that holds a positive number ("break"), as a
\* list: <<>> when there is none
RECURSIVE first_positive(_, _, _)
first_positive(f, keys, k) ==
    IF k > Len(keys) THEN <<>>
    ELSE IF positive_number(f, keys[k]) THEN <<f[keys[k]]>>
    ELSE first_positive(f, keys, k + 1)

\* steps_val of lines 116-120: int() of the first positive step value, 0 for
\* None
steps_val_of(found) == IF found = <<>> THEN 0 ELSE int_of(found[1])

\* dist_val of lines 123-127: float() of the first positive distance in
\* quarters of a metre, 0 for None
dist_val_of(found) == IF found = <<>> THEN 0 ELSE float_of(found[1])

\* lines 176-179: the sum of int(data[sk]) over the keys of keys[k..] that hold
\* a positive number
RECURSIVE sum_steps(_, _, _)
sum_steps(f, keys, k) ==
    IF k > Len(keys) THEN 0
    ELSE (IF positive_number(f, keys[k]) THEN int_of(f[keys[k]]) ELSE 0)
         + sum_steps(f, keys, k + 1)

\* lines 180-185: the sum of float(data[dk]) over the keys of keys[k..] that
\* hold a positive number, in quarters of a metre
RECURSIVE sum_distance(_, _, _)
sum_distance(f, keys, k) ==
    IF k > Len(keys) THEN 0
    ELSE (IF positive_number(f, keys[k]) THEN float_of(f[keys[k]]) ELSE 0)
         + sum_distance(f, keys, k + 1)

RECURSIVE pow2(_)
pow2(e) == IF e = 0 THEN 1 ELSE 2 * pow2(e - 1)

RECURSIVE pow2_mod200(_)
pow2_mod200(e) == IF e = 0 THEN 1 ELSE (2 * pow2_mod200(e - 1)) % 200

\* the binary exponent t of n/200: 2^t <= n/200 < 2^(t+1)
exponent_of(n) ==
    IF n >= 200
    THEN CHOOSE t \in 0..20 : 200 * pow2(t) <= n /\ n < 400 * pow2(t)
    ELSE -(CHOOSE u \in 1..8 : n * pow2(u) >= 200 /\ n * pow2(u - 1) < 200)

\* round(x, 2) for x = (10 * q + 5) / 1000.0, a tie in decimal, in hundredths.
\* x = n/200 with n = 2q + 1; the double nearest to x has the 53-bit mantissa
\* n * 2^e / 200 rounded, e = 52 - exponent_of(n), and lies below x when the
\* remainder r of that division is under 100 and above x when it is over; an
\* x that is a double (r = 0) is rounded half to even.
round_tie(q) ==
    LET n == 2 * q + 1
        r == ((n % 200) * pow2_mod200(52 - exponent_of(n))) % 200
    IN  IF r = 0 THEN (IF q % 2 = 0 THEN q ELSE q + 1)
        ELSE IF r < 100 THEN q
        ELSE q + 1

\* round(total_distance / 1000.0, 2) in hundredths of a km, total_distance
\* in quarters of a metre
round2_metres(total) ==
    IF total % 40 = 20 THEN round_tie(total \div 40)
    ELSE (total + 20) \div 40

\* lines 140 and 143
distance_km_of_bins(total_steps, total_distance, found_distance) ==
    IF found_distance /\ total_distance > 0 THEN round2_metres(total_distance)
    ELSE steps_to_km_round2(total_steps)

\* one pass of "for entry in items" (lines 110-135)
accumulate_entry(st, entry) ==
    IF entry.t # "dict" THEN st
    ELSE LET steps_val == steps_val_of(first_positive(entry.f, StepKeysBins, 1))
             dist_val  == dist_val_of(first_positive(entry.f, DistanceKeys, 1))
         IN  [total_steps    |-> st.total_steps + steps_val,
              total_distance |-> st.total_distance + dist_val,
              found_distance |-> st.found_distance \/ dist_val # 0,
              found_date     |-> IF st.found_date = NoDate
                                 THEN extract_date_from_entry(entry.f)
                                 ELSE st.found_date]

RECURSIVE accumulate_from(_, _, _)
accumulate_from(items, k, st) ==
    IF k > Len(items) THEN st
    ELSE accumulate_from(items, k + 1, accumulate_entry(st, items[k]))

\* lines 137-145 on the totals st of the loop; the result is a list: <<>> for
\* None, <<result>> for a dict
accumulated_result(st) ==
    IF st.total_steps = 0 /\ ~st.found_distance THEN <<>>
    ELSE <<[steps |-> st.total_steps,
            distance_km |-> distance_km_of_bins(st.total_steps,
                                st.total_distance, st.found_distance),
            raw_date |-> st.found_date]>>

_accumulate_from_iterable(items) ==
    accumulated_result(
        accumulate_from(items, 1,
            [total_steps |-> 0, total_distance |-> 0,
             found_distance |-> FALSE, found_date |-> NoDate]))

ContainerKeys == <<"binning_data", "items", "data">>

\* lines 169-172: the result for the first container key that holds a list
RECURSIVE from_container(_, _)
from_container(f, k) ==
    IF k > Len(ContainerKeys) THEN <<>>
    ELSE IF ContainerKeys[k] \in DOMAIN f /\ f[ContainerKeys[k]].t = "list"
         THEN _accumulate_from_iterable(f[ContainerKeys[k]].items)
    ELSE from_container(f, k + 1)

\* lines 188 and 191
distance_km_of_object(steps, total_distance, found_distance) ==
    IF found_distance /\ total_distance > 0 THEN round2_metres(total_distance)
    ELSE steps_to_km_round2(steps)

\* lines 175-193: the single-object fallback
single_object(f) ==
    LET steps          == sum_steps(f, StepKeysObject, 1)
        total_distance == sum_distance(f, DistanceKeys, 1)
        found_distance == \E k \in 1..Len(DistanceKeys) :
                              positive_number(f, DistanceKeys[k])
    IN  IF steps > 0 \/ found_distance
        THEN <<[steps |-> steps,
                distance_km |-> distance_km_of_object(steps, total_distance,
                                                      found_distance),
                raw_date |-> extract_date_from_entry(f)]>>
        ELSE <<>>

\* line 175: "if result is None" keeps a result already found
if_none(result, fallback) == IF result = <<>> THEN fallback ELSE result

\* lines 162-193: the result for the decoded data
result_of_data(data) ==
    IF data.t = "list" THEN _accumulate_from_iterable(data.items)
    ELSE IF data.t = "dict"
         THEN if_none(from_container(data.f, 1), single_object(data.f))
    ELSE <<>>

\* lines 195-201: None for no result, else the result with file and mtime
with_file(fp, result) ==
    IF result = <<>> THEN <<>>
    ELSE <<[steps |-> result[1].steps,
            distance_km |-> result[1].distance_km,
            raw_date |-> result[1].raw_date,
            file |-> fp.path,
            mtime |-> fp.mtime]>>

\* process_binning_json on the file fp = [path, mtime, data]: <<>> for
\* None, <<record>> otherwise
process_binning_json(fp) ==
    IF fp.data.t = "unreadable" THEN <<>>
    ELSE with_file(fp, result_of_data(fp.data))

\* lines 209-215: files, the fragments of every directory in order
RECURSIVE files_of_dirs(_, _, _)
files_of_dirs(fs, dirs, k) ==
    IF k > Len(dirs) THEN <<>>
    ELSE find_all_binning_files_in_dir(fs, dirs[k]) \o files_of_dirs(fs, dirs, k + 1)

\* datetime.strptime(rd, "%Y-%m-%d") raises for a year that strftime wrote
\* with fewer than four digits (lines 230-233)
strptime_raises(rd) == rd[1] < 1000

\* datetime.utcfromtimestamp(mtime) as <<ordinal, second of the day,
\* thousandths>>
utcfromtimestamp(mtime) ==
    <<719163 + mtime.s \div 86400, mtime.s % 86400, mtime.ms>>

\* the key that leaves the path out
rec_sort_key_no_path(r) ==
    [dt |-> IF /\ r.raw_date # NoDate
               /\ r.raw_date # BAD_DATE
               /\ ~strptime_raises(r.raw_date)
            THEN <<strptime(r.raw_date), 0, 0>>
            ELSE utcfromtimestamp(r.mtime),
     file |-> <<>>]

\* the naive datetime dt as <<ordinal, second of the day, thousandths>>
rec_sort_key(r) ==
    [dt |-> IF /\ r.raw_date # NoDate
               /\ r.raw_date # BAD_DATE
               /\ ~strptime_raises(r.raw_date)
            THEN <<strptime(r.raw_date), 0, 0>>
            ELSE utcfromtimestamp(r.mtime),
     file |-> r.file]

\* datetime.__lt__ on <<ordinal, second, thousandths>>
dt_less(a, b) ==
    \/ a[1] < b[1]
    \/ a[1] = b[1] /\ a[2] < b[2]
    \/ a[1] = b[1] /\ a[2] = b[2] /\ a[3] < b[3]

\* the order of two keys (dt, file)
key_less(a, b) ==
    \/ dt_less(a.dt, b.dt)
    \/ a.dt = b.dt /\ StrLess(a.file, b.file)

\* list.sort(key=rec_sort_key) is stable: r goes after the items of sorted
\* whose key is not greater
RECURSIVE insert_sorted(_, _)
insert_sorted(sorted, r) ==
    IF Len(sorted) = 0 THEN <<r>>
    ELSE IF key_less(rec_sort_key(r), rec_sort_key(sorted[1]))
         THEN <<r>> \o sorted
    ELSE <<sorted[1]>> \o insert_sorted(Tail(sorted), r)

RECURSIVE sort_from(_, _, _)
sort_from(recs, k, sorted) ==
    IF k > Len(recs) THEN sorted
    ELSE sort_from(recs, k + 1, insert_sorted(sorted, recs[k]))

\* records.sort(key=rec_sort_key)
sort_records(recs) == sort_from(recs, 1, <<>>)

-----------------------------------------------------------------------------
(* CLUSTER -> DATE MAPPING                                                  *)

\* the inner loop run as "for j in range(L - 1)"
RECURSIVE window_ok_short(_, _, _, _)
window_ok_short(recs, steps_seq, i, j) ==
    IF j >= Len(steps_seq) - 1 THEN TRUE
    ELSE IF recs[i + j + 1].steps # steps_seq[j + 1] THEN FALSE
    ELSE window_ok_short(recs, steps_seq, i, j + 1)

\* the inner loop "for j in range(L)" from j on: TRUE iff no mismatch
RECURSIVE window_ok(_, _, _, _)
window_ok(recs, steps_seq, i, j) ==
    IF j >= Len(steps_seq) THEN TRUE
    ELSE IF recs[i + j + 1].steps # steps_seq[j + 1] THEN FALSE
    ELSE window_ok(recs, steps_seq, i, j + 1)

\* the outer loop "for i in range(lo, hi)", split in halves so that long
\* record lists do not nest deeply; the first matching i of lo..hi-1 or None
RECURSIVE scan_windows(_, _, _, _)
scan_windows(recs, steps_seq, lo, hi) ==
    IF lo >= hi THEN None
    ELSE IF lo + 1 = hi
         THEN IF window_ok(recs, steps_seq, lo, 0) THEN lo ELSE None
    ELSE LET mid   == (lo + hi) \div 2
             first == scan_windows(recs, steps_seq, lo, mid)
         IN  IF first # None THEN first
             ELSE scan_windows(recs, steps_seq, mid, hi)

\* the scan run as "for i in range(start_at, n - L)"
find_sequence_index_short(recs, steps_seq, start_at) ==
    scan_windows(recs, steps_seq, start_at, Len(recs) - Len(steps_seq))

find_sequence_index_after(recs, steps_seq, start_at) ==
    scan_windows(recs, steps_seq, start_at, Len(recs) - Len(steps_seq) + 1)

\* the calendar built with days = (cal_end - cal_start).days
create_blank_timeline_short(start, end) ==
    LET days == end - start
    IN  [k \in 1..days |->
            [date |-> strftime(start + (k - 1)), steps |-> 0, distance_km |-> 0]]

create_blank_timeline(start, end) ==
    LET days == (end - start) + 1
    IN  [k \in 1..days |->
            [date |-> strftime(start + (k - 1)), steps |-> 0, distance_km |-> 0]]

\* the pass that does not advance search_from
anchor_cluster_stay(recs, st, c) ==
    LET start_dt == strptime(c.start_date)
        idx0     == find_sequence_index_after(recs, c.steps_seq, st.search_from)
    IN  IF idx0 = None
        THEN [anchors |-> st.anchors, search_from |-> st.search_from, idx0 |-> idx0]
        ELSE [anchors |->
                 Update(st.anchors,
                        [i \in idx0..(idx0 + Len(c.steps_seq) - 1) |->
                            start_dt + (i - idx0)]),
              search_from |-> st.search_from,
              idx0 |-> idx0]

\* the pass that binds records[idx0 + off] to start_dt + off + 1 days
anchor_cluster_shifted(recs, st, c) ==
    LET start_dt == strptime(c.start_date)
        idx0     == find_sequence_index_after(recs, c.steps_seq, st.search_from)
    IN  IF idx0 = None
        THEN [anchors |-> st.anchors, search_from |-> st.search_from, idx0 |-> idx0]
        ELSE [anchors |->
                 Update(st.anchors,
                        [i \in idx0..(idx0 + Len(c.steps_seq) - 1) |->
                            start_dt + (i - idx0) + 1]),
              search_from |-> idx0 + Len(c.steps_seq),
              idx0 |-> idx0]

\* one pass of "for c in CLUSTERS" (lines 278-285) on the loop state
\* st = [anchors, search_from]; the record returned also carries idx0
anchor_cluster(recs, st, c) ==
    LET start_dt == strptime(c.start_date)
        idx0     == find_sequence_index_after(recs, c.steps_seq, st.search_from)
    IN  IF idx0 = None
        THEN [anchors |-> st.anchors, search_from |-> st.search_from, idx0 |-> idx0]
        ELSE [anchors |->
                 Update(st.anchors,
                        [i \in idx0..(idx0 + Len(c.steps_seq) - 1) |->
                            start_dt + (i - idx0)]),
              search_from |-> idx0 + Len(c.steps_seq),
              idx0 |-> idx0]

\* sorted(idx_to_date.items(), key=lambda kv: kv[0])
RECURSIVE sorted_items(_)
sorted_items(f) ==
    IF DOMAIN f = {} THEN <<>>
    ELSE LET k == Min(DOMAIN f)
         IN  <<[idx |-> k, dt |-> f[k]]>>
             \o sorted_items([x \in DOMAIN f \ {k} |-> f[x]])

\* a backward pass that counts one day too many
fill_backward_early(known) ==
    LET first_idx == known[1].idx
        first_dt  == known[1].dt
    IN  [i \in 0..(first_idx - 1) |-> first_dt - (first_idx - i) - 1]

\* "backward": for i in range(first_idx - 1, -1, -1)
fill_backward(known) ==
    LET first_idx == known[1].idx
        first_dt  == known[1].dt
    IN  [i \in 0..(first_idx - 1) |-> first_dt - (first_idx - i)]

\* the pass that counts the days from the day before the earlier anchor
fill_between_late(known, a) ==
    LET ia == known[a].idx
        da == known[a].dt
        ib == known[a + 1].idx
    IN  [i \in (ia + 1)..(ib - 1) |-> da + (i - ia) - 1]

\* "between", one pass of "for a in range(len(known) - 1)"
fill_between(known, a) ==
    LET ia == known[a].idx
        da == known[a].dt
        ib == known[a + 1].idx
    IN  [i \in (ia + 1)..(ib - 1) |-> da + (i - ia)]

RECURSIVE fill_all_between(_, _, _)
fill_all_between(known, a, acc) ==
    IF a > Len(known) - 1 THEN acc
    ELSE fill_all_between(known, a + 1, Update(acc, fill_between(known, a)))

\* "forward": for i in range(last_idx + 1, len(records))
fill_forward(known, n) ==
    LET last_idx == known[Len(known)].idx
        last_dt  == known[Len(known)].dt
    IN  [i \in (last_idx + 1)..(n - 1) |-> last_dt + (i - last_idx)]

\* lines 290-309: index -> date across the whole records list
interpolate(anch, n) ==
    LET known == sorted_items(anch)
        back  == Update(anch, fill_backward(known))
        mid   == fill_all_between(known, 1, back)
    IN  Update(mid, fill_forward(known, n))

\* a test that lets a record of equal steps replace the entry
replaces_at_least(rec, cur) == rec.steps >= cur.steps

\* the test of lines 319-321: rec replaces the current entry of its date
replaces(rec, cur) ==
    \/ rec.steps > cur.steps
    \/ rec.steps = cur.steps /\ rec.distance_km > cur.distance_km

\* one pass of "for i, rec in enumerate(records)" (lines 313-322)
resolve_record(recs, i2d, by_date, i) ==
    IF i \notin DOMAIN i2d THEN by_date
    ELSE LET rec == recs[i + 1]
             ds  == strftime(i2d[i])
         IN  IF ds \notin DOMAIN by_date \/ replaces(rec, by_date[ds])
             THEN Update(by_date,
                         [x \in {ds} |->
                            [steps |-> rec.steps, distance_km |-> rec.distance_km]])
             ELSE by_date

\* the passes for the indices order[lo..hi], in that order, split in halves
RECURSIVE resolve_range(_, _, _, _, _, _)
resolve_range(recs, i2d, order, by_date, lo, hi) ==
    IF lo > hi THEN by_date
    ELSE IF lo = hi THEN resolve_record(recs, i2d, by_date, order[lo])
    ELSE LET mid  == (lo + hi) \div 2
             left == resolve_range(recs, i2d, order, by_date, lo, mid)
         IN  IF DOMAIN left = {} /\ lo > hi THEN left
             ELSE resolve_range(recs, i2d, order, left, mid + 1, hi)

\* lines 311-323 with the records visited in the given order of indices
resolve_in_order(recs, i2d, order) ==
    resolve_range(recs, i2d, order, EmptyMap, 1, Len(order))

\* lines 311-323: date -> best record, records visited as enumerate() does
resolve_by_date(recs, i2d) ==
    resolve_in_order(recs, i2d, [k \in 1..Len(recs) |-> k - 1])

-----------------------------------------------------------------------------
(* OVERLAY AND DEDUPE                                                       *)

\* a test that asks for 5000 steps more than the row holds
overlays_above(rec, cur) == rec.steps > cur.steps + 5000

\* the test of lines 337-339: the resolved record rec replaces the row cur
overlays(rec, cur) ==
    \/ rec.steps > cur.steps
    \/ rec.steps = cur.steps /\ rec.distance_km > cur.distance_km

\* idx = {r["date"]: i for i, r in enumerate(timeline_rows)}: the last row
\* with that date
row_index(rows, ds) == Max({i \in 1..Len(rows) : rows[i].date = ds})

strictly_increasing(rows) ==
    \A i \in 1..(Len(rows) - 1) : DateLess(rows[i].date, rows[i + 1].date)

insert_data_after_timeline(rows, dmap) ==
    IF DOMAIN dmap = {} THEN rows
    ELSE LET distinct == strictly_increasing(rows)
         IN  [i \in 1..Len(rows) |->
                LET cur == rows[i]
                    ds  == cur.date
                IN  IF /\ ds \in DOMAIN dmap
                       /\ (distinct \/ row_index(rows, ds) = i)
                       /\ overlays(dmap[ds], cur)
                    THEN [date |-> ds, steps |-> dmap[ds].steps,
                          distance_km |-> dmap[ds].distance_km]
                    ELSE cur]

\* sorted(timeline_rows, key=lambda x: x["date"]): a stable sort
sorted_by_date(rows) ==
    IF \A i \in 1..(Len(rows) - 1) : ~DateLess(rows[i + 1].date, rows[i].date)
    THEN rows
    ELSE LET rank(i) ==
                 Cardinality({j \in 1..Len(rows) :
                                \/ DateLess(rows[j].date, rows[i].date)
                                \/ rows[j].date = rows[i].date /\ j <= i})
         IN  [p \in 1..Len(rows) |->
                rows[CHOOSE i \in 1..Len(rows) : rank(i) = p]]

\* the pass that keeps the distance of a rewritten row
dedupe_row_keep_distance(st, r) ==
    LET s == r.steps
    IN  IF s = 0 THEN [seen |-> st.seen, out |-> Append(st.out, r)]
        ELSE IF s \in st.seen
             THEN [seen |-> st.seen,
                   out |-> Append(st.out,
                              [date |-> r.date, steps |-> 0,
                               distance_km |-> r.distance_km])]
        ELSE [seen |-> st.seen \cup {s}, out |-> Append(st.out, r)]

\* one pass of the loop of lines 350-359 on [seen, out]
dedupe_row(st, r) ==
    LET s == r.steps
    IN  IF s = 0 THEN [seen |-> st.seen, out |-> Append(st.out, r)]
        ELSE IF s \in st.seen
             THEN [seen |-> st.seen,
                   out |-> Append(st.out,
                              [date |-> r.date, steps |-> 0, distance_km |-> 0])]
        ELSE [seen |-> st.seen \cup {s}, out |-> Append(st.out, r)]

\* the passes for rows[lo..hi] from the set seen, split in halves; out holds
\* the rows appended by these passes
RECURSIVE dedupe_range(_, _, _, _)
dedupe_range(rows, seen, lo, hi) ==
    IF lo > hi THEN [seen |-> seen, out |-> <<>>]
    ELSE IF lo = hi THEN dedupe_row([seen |-> seen, out |-> <<>>], rows[lo])
    ELSE LET mid   == (lo + hi) \div 2
             left  == dedupe_range(rows, seen, lo, mid)
             right == dedupe_range(rows, left.seen, mid + 1, hi)
         IN  IF left.seen = {} /\ lo > hi THEN left
             ELSE [seen |-> right.seen, out |-> left.out \o right.out]

dedupe_across_dates_preserve_timeline(rows) ==
    LET srt == sorted_by_date(rows)
    IN  dedupe_range(srt, {}, 1, Len(srt)).out

-----------------------------------------------------------------------------
(* Inputs: calendars and ordered record lists                               *)

MaxSpan    == 4   \* a small calendar has at most MaxSpan + 1 days
MaxBlocks  == 3   \* a short record list is made of at most MaxBlocks blocks
MaxPad     == 1   \* fillers before cluster 1; after each of clusters 2 and 3
MaxOverrun == 1   \* fillers beyond the days that separate clusters 1 and 2

\* a record parsed from a fragment that carries steps only
R(s) == [steps |-> s, distance_km |-> steps_to_km_round2(s)]
\* a record parsed from a fragment that carries steps and a distance
RD(s, d) == [steps |-> s, distance_km |-> d]

cluster_records(k) ==
    [j \in 1..Len(CLUSTERS[k].steps_seq) |-> R(CLUSTERS[k].steps_seq[j])]

Fillers == {R(500), RD(500, 50), RD(0, 5)}

Blocks ==
    {cluster_records(k) : k \in DOMAIN CLUSTERS}
    \cup {SubSeq(cluster_records(1), 1, 2)}
    \cup {<<r>> : r \in Fillers}

RECURSIVE BlockStreams(_)
BlockStreams(n) ==
    IF n = 0 THEN {<<>>}
    ELSE LET S == BlockStreams(n - 1)
         IN  S \cup {s \o b : s \in S, b \in Blocks}

\* n fillers, the last one being tail
run(n, tail) == [i \in 1..n |-> IF i = n THEN tail ELSE R(500)]

\* the number of days strictly between the last day of cluster 1 and the
\* first day of cluster 2
Fit12 ==
    strptime(CLUSTERS[2].start_date)
    - (strptime(CLUSTERS[1].start_date) + Len(CLUSTERS[1].steps_seq) - 1) - 1

Tails == {R(500), R(20000), RD(2470, 999), RD(2470, 1)}

\* the three clusters in order with fillers before, between and after
LongStreams ==
    { run(nb, R(300)) \o cluster_records(1) \o run(n1, t) \o cluster_records(2)
        \o run(n2, R(700)) \o cluster_records(3) \o run(n2, R(900)) :
        nb \in 0..MaxPad, n2 \in 0..MaxPad, t \in Tails,
        n1 \in {1} \cup {Fit12 + k : k \in 0..MaxOverrun} }

SmallCalendars ==
    {[start |-> CAL_START - 1 + a, end |-> CAL_START - 1 + a + b] :
        a \in 0..1, b \in 0..MaxSpan}

RealCalendar == [start |-> CAL_START, end |-> CAL_END]

StreamsFor(start, end) ==
    IF [start |-> start, end |-> end] = RealCalendar
    THEN LongStreams \cup BlockStreams(1)
    ELSE IF end - start = MaxSpan THEN BlockStreams(MaxBlocks)
    ELSE BlockStreams(1)

-----------------------------------------------------------------------------
(* main() and the steps of assign_dates_map                                 *)

Init ==
    /\ pc = "start"
    /\ \E cal \in SmallCalendars \cup {RealCalendar} :
          cal_start = cal.start /\ cal_end = cal.end
    /\ timeline = <<>>
    /\ records = <<>>
    /\ ci = 1
    /\ search_from = 0
    /\ anchors = EmptyMap
    /\ calls = <<>>
    /\ idx_to_date = EmptyMap
    /\ date_map = EmptyMap
    /\ tree = [dirs |-> {}, files |-> {}]
    /\ files = <<>>
    /\ fi = 1
    /\ parsed = <<>>

\* main, step 1
CreateBlank ==
    /\ pc = "start"
    /\ timeline' = create_blank_timeline(cal_start, cal_end)
    /\ pc' = "discover"
    /\ UNCHANGED <<cal_start, cal_end, records, ci, search_from, anchors, calls,
                   idx_to_date, date_map, tree, files, fi, parsed>>

\* main, step 2: the ordered records that discovery returns
Discover ==
    /\ pc = "discover"
    /\ \E recs \in StreamsFor(cal_start, cal_end) : records' = recs
    /\ pc' = "assign"
    /\ UNCHANGED <<cal_start, cal_end, timeline, ci, search_from, anchors, calls,
                   idx_to_date, date_map, tree, files, fi, parsed>>

\* assign_dates_map, lines 272-277
AssignBegin ==
    /\ pc = "assign"
    /\ IF Len(records) = 0
       THEN date_map' = EmptyMap /\ pc' = "insert"
       ELSE date_map' = date_map /\ pc' = "anchor"
    /\ ci' = 1
    /\ search_from' = 0
    /\ anchors' = EmptyMap
    /\ UNCHANGED <<cal_start, cal_end, timeline, records, calls, idx_to_date,
                   tree, files, fi, parsed>>

\* assign_dates_map, one pass of the loop of lines 278-285
AnchorCluster ==
    /\ pc = "anchor"
    /\ ci <= Len(CLUSTERS)
    /\ LET st == anchor_cluster(records,
                     [anchors |-> anchors, search_from |-> search_from],
                     CLUSTERS[ci])
       IN  /\ anchors' = st.anchors
           /\ search_from' = st.search_from
           /\ calls' = Append(calls, [cluster |-> ci, start_at |-> search_from,
                                      idx0 |-> st.idx0])
    /\ ci' = ci + 1
    /\ UNCHANGED <<pc, cal_start, cal_end, timeline, records, idx_to_date,
                   date_map, tree, files, fi, parsed>>

\* assign_dates_map, lines 287-309
Interpolate ==
    /\ pc = "anchor"
    /\ ci > Len(CLUSTERS)
    /\ IF DOMAIN anchors = {}
       THEN /\ date_map' = EmptyMap
            /\ idx_to_date' = idx_to_date
            /\ pc' = "insert"
       ELSE /\ idx_to_date' = interpolate(anchors, Len(records))
            /\ date_map' = date_map
            /\ pc' = "resolve"
    /\ UNCHANGED <<cal_start, cal_end, timeline, records, ci, search_from,
                   anchors, calls, tree, files, fi, parsed>>

\* assign_dates_map, lines 311-323
Resolve ==
    /\ pc = "resolve"
    /\ date_map' = resolve_by_date(records, idx_to_date)
    /\ pc' = "insert"
    /\ UNCHANGED <<cal_start, cal_end, timeline, records, ci, search_from,
                   anchors, calls, idx_to_date, tree, files, fi, parsed>>

\* main, step 4
Insert ==
    /\ pc = "insert"
    /\ timeline' = insert_data_after_timeline(timeline, date_map)
    /\ pc' = "dedupe"
    /\ UNCHANGED <<cal_start, cal_end, records, ci, search_from, anchors, calls,
                   idx_to_date, date_map, tree, files, fi, parsed>>

\* main, step 5
Dedupe ==
    /\ pc = "dedupe"
    /\ timeline' = dedupe_across_dates_preserve_timeline(timeline)
    /\ pc' = "done"
    /\ UNCHANGED <<cal_start, cal_end, records, ci, search_from, anchors, calls,
                   idx_to_date, date_map, tree, files, fi, parsed>>

Next ==
    \/ CreateBlank
    \/ Discover
    \/ AssignBegin
    \/ AnchorCluster
    \/ Interpolate
    \/ Resolve
    \/ Insert
    \/ Dedupe

Spec == Init /\ [][Next]_vars

-----------------------------------------------------------------------------
(* discover_all_records on a tree of fragment files                         *)

MaxFiles == 3   \* a tree holds at most MaxFiles fragment files

\* midnight UTC of the first cluster day, in seconds since the epoch
T0 == (CAL_START - 719163) * 86400

\* the time T0 + s seconds + ms thousandths
At(s, ms) == [s |-> T0 + s, ms |-> ms]

\* the directories of the trees: "r/e1", "r/e2", "r/e3" and "r" hold a
\* pedometer directory, "r/e1" one more nested in "sub" of the first, and
\* "r/jsons/com...summary.x" one whose path sorts before the files of "r"
DirE1 == <<114, 47, 101, 49>> \o PedoTail
DirE2 == <<114, 47, 101, 50>> \o PedoTail
DirE3 == <<114, 47, 101, 51>> \o PedoTail
DirNested == DirE1 \o <<47, 115, 117, 98>> \o PedoTail
DirRoot == RawRoot \o PedoTail
DirDotX == DirRoot \o <<46, 120>> \o PedoTail
\* "r/e[1]" and "r/e?" hold a pedometer directory whose path, read as a
\* pattern, matches other directories
DirBracket == <<114, 47, 101, 91, 49, 93>> \o PedoTail
DirQuestion == <<114, 47, 101, 63>> \o PedoTail
\* a directory of "r/e2" named like a fragment, "x.binning_data.json"
DirFragment == DirE2 \o <<47, 120>> \o BinningTail

\* the directory path with the modification time mtime
Directory(path, mtime) == [path |-> path, mtime |-> mtime]

\* the file dir/name.binning_data.json
File(dir, name, mtime, data) ==
    [path |-> dir \o <<47>> \o name \o BinningTail, mtime |-> mtime,
     data |-> data]

\* the file dir/name, which is no fragment
OtherFile(dir, name, mtime, data) ==
    [path |-> dir \o <<47>> \o name, mtime |-> mtime, data |-> data]

FilePool ==
    { File(DirE1, <<49>>, At(100, 0),
           List(<<Dict([mStepCount |-> Num(4702)])>>)),
      File(DirE1, <<50>>, At(100, 0),
           List(<<Dict([mDistance |-> Num(4)])>>)),
      File(DirE1, <<49, 49>>, At(0, 0),
           Dict([mBestSteps |-> Num(500), mStepCount |-> Num(500),
                 day_time |-> Num(0)])),
      File(DirE2, <<49>>, At(-50, 0),
           List(<<Dict([count |-> Num(300), distance |-> Frac(1203, 2),
                        date |-> Str(<<2021, 12, 14>>, None)]),
                  Dict([steps |-> Num(200), mDistance |-> Num(5)])>>)),
      File(DirE2, <<50>>, At(86400, 0), Unreadable),
      File(DirE2, <<51>>, At(200, 0),
           Dict([binning_data |-> List(<<>>), steps |-> Num(7)])),
      File(DirE1, <<51>>, At(300, 0),
           Dict([items |-> List(<<Num(5),
                                  Dict([value |-> Num(6105),
                                        time |-> Str(NoDate, T0 + 86400)])>>)])),
      File(DirE1, <<52>>, At(400, 0),
           Dict([distance |-> Num(3)])),
      File(DirE2, <<52>>, At(100, 0),
           List(<<Dict([mStepCount |-> Num(0), mDistance |-> Num(0),
                        start_time |-> Null])>>)),
      File(DirE2, <<53>>, At(500, 0),
           Dict([data |-> Num(5), mDistance |-> Num(15),
                 mStartTime |-> Str(NoDate, None)])),
      File(DirNested, <<98>>, At(1, 0),
           List(<<Dict([steps |-> Num(6),
                        date |-> Str(<<2021, 12, 15>>, None)])>>)),
      File(DirRoot, <<97>>, At(0, 0),
           List(<<Dict([steps |-> Num(5),
                        date |-> Str(<<2021, 12, 14>>, None)])>>)),
      File(DirDotX, <<97>>, At(0, 0),
           List(<<Dict([steps |-> Num(6),
                        date |-> Str(<<2021, 12, 14>>, None)])>>)),
      File(DirE1, <<54>>, At(500, 0),
           List(<<Dict([steps |-> Num(5),
                        date |-> Str(<<999, 6, 1>>, None)])>>)),
      File(DirE1, <<55>>, At(0, 750),
           List(<<Dict([mStepCount |-> Frac(0, 2), count |-> Num(300)])>>)),
      File(DirE1, <<56>>, At(0, 250),
           Dict([mStepCount |-> Frac(2, 3), mDistance |-> Frac(560, 1),
                 distance |-> Frac(4, 3)])),
      File(DirE2, <<54>>, At(86400, 500),
           List(<<Dict([mStepCount |-> Bool(TRUE), mDistance |-> Bool(FALSE),
                        day_time |-> Bool(TRUE)])>>)),
      File(DirBracket, <<97>>, At(2, 0),
           List(<<Dict([steps |-> Num(8)])>>)),
      File(DirQuestion, <<97>>, At(3, 0),
           List(<<Dict([steps |-> Num(9)])>>)),
      OtherFile(DirE1, <<110, 111, 116, 101, 115, 46, 106, 115, 111, 110>>, At(0, 0),
           List(<<Dict([mStepCount |-> Num(9)])>>)) }

\* the directories above the file or directory path
dirs_above(path) ==
    {SubSeq(path, 1, i - 1) : i \in {j \in 1..Len(path) : path[j] = 47}}

\* the directories that a tree may hold beside those of its files
DirPool == {Directory(DirE3, At(0, 0)), Directory(DirFragment, At(50, 500))}

\* the tree that holds the files fs and the directories ds, with every
\* directory above them
tree_of(fs, ds) ==
    [dirs  |-> ds \cup {Directory(q, At(0, 0)) :
                          q \in (UNION {dirs_above(f.path) : f \in fs}
                                 \cup UNION {dirs_above(d.path) : d \in ds})
                                \ {d.path : d \in ds}},
     files |-> fs]

Trees ==
    {tree_of(fs, ds) :
        fs \in {x \in SUBSET FilePool : Cardinality(x) <= MaxFiles},
        ds \in {{}, DirPool}}

InitDiscover ==
    /\ pc = "find"
    /\ tree \in Trees
    /\ files = <<>>
    /\ fi = 1
    /\ parsed = <<>>
    /\ records = <<>>
    /\ cal_start = CAL_START
    /\ cal_end = CAL_END
    /\ timeline = <<>>
    /\ ci = 1
    /\ search_from = 0
    /\ anchors = EmptyMap
    /\ calls = <<>>
    /\ idx_to_date = EmptyMap
    /\ date_map = EmptyMap

\* discover_all_records, lines 209-219
FindFiles ==
    /\ pc = "find"
    /\ files' = files_of_dirs(tree, find_all_pedometer_dirs(tree), 1)
    /\ fi' = 1
    /\ parsed' = <<>>
    /\ pc' = "parse"
    /\ UNCHANGED <<cal_start, cal_end, timeline, records, ci, search_from,
                   anchors, calls, idx_to_date, date_map, tree>>

\* discover_all_records, one pass of the loop of lines 220-223
ParseFile ==
    /\ pc = "parse"
    /\ fi <= Len(files)
    /\ parsed' = parsed \o process_binning_json(files[fi])
    /\ fi' = fi + 1
    /\ UNCHANGED <<pc, cal_start, cal_end, timeline, records, ci, search_from,
                   anchors, calls, idx_to_date, date_map, tree, files>>

\* discover_all_records, lines 239-240
SortRecords ==
    /\ pc = "parse"
    /\ fi > Len(files)
    /\ records' = sort_records(parsed)
    /\ pc' = "sorted"
    /\ UNCHANGED <<cal_start, cal_end, timeline, ci, search_from, anchors, calls,
                   idx_to_date, date_map, tree, files, fi, parsed>>

NextDiscover ==
    \/ FindFiles
    \/ ParseFile
    \/ SortRecords

SpecDiscover == InitDiscover /\ [][NextDiscover]_vars

-----------------------------------------------------------------------------
(* Properties                                                               *)

\* the row of the timeline for the day dt (the days are consecutive from
\* cal_start)
RowOf(dt) == timeline[dt - cal_start + 1]

\* cluster k's step sequence occurs in recs as the window starting at index i
OccursAt(recs, k, i) ==
    LET seq == CLUSTERS[k].steps_seq
    IN  /\ i >= 0
        /\ i + Len(seq) <= Len(recs)
        /\ \A j \in 1..Len(seq) : recs[i + j].steps = seq[j]

NoClusterOccurs(recs) ==
    \A k \in DOMAIN CLUSTERS : \A i \in 0..(Len(recs) - 1) : ~OccursAt(recs, k, i)

\* C1: the final timeline has (cal_end - cal_start).days + 1 rows, starts on
\* cal_start, ends on cal_end, and each row is dated one day after the row
\* before it, whatever the records are.
C1_TimelineSpansCalendar ==
    pc = "done" =>
        /\ Len(timeline) = (cal_end - cal_start) + 1
        /\ timeline[1].date = strftime(cal_start)
        /\ timeline[Len(timeline)].date = strftime(cal_end)
        /\ \A i \in 1..(Len(timeline) - 1) :
              strptime(timeline[i + 1].date) = strptime(timeline[i].date) + 1

C1_Witness ==
    /\ pc = "done"
    /\ cal_start < cal_end
    /\ \E i \in 1..Len(timeline) : timeline[i].steps > 0
    /\ \E i \in 1..Len(timeline) :
          /\ timeline[i].steps = 0
          /\ timeline[i].date \in DOMAIN date_map
          /\ date_map[timeline[i].date].steps > 0

\* C2: when the record list is empty or no cluster's step sequence occurs in
\* it as a contiguous window, assign_dates_map returns the empty map and the
\* final timeline has steps 0 and distance 0.0 on every day from cal_start to
\* cal_end.
C2_NoMatchGivesBlankTimeline ==
    NoClusterOccurs(records) =>
        /\ pc \in {"insert", "dedupe", "done"} => date_map = EmptyMap
        /\ pc = "done" =>
              /\ Len(timeline) = (cal_end - cal_start) + 1
              /\ \A dt \in cal_start..cal_end :
                    RowOf(dt) = [date |-> strftime(dt), steps |-> 0,
                                 distance_km |-> 0]

C2_Witness ==
    /\ pc = "done"
    /\ Len(records) >= Len(CLUSTERS[1].steps_seq)
    /\ NoClusterOccurs(records)
    /\ \E i \in 1..Len(records) : records[i].steps = CLUSTERS[1].steps_seq[1]

\* C3: an index returned by find_sequence_index_after is never below the
\* search_from it was called with, and of two clusters that both match, the
\* one matched later occupies indices strictly after the last index of the
\* one matched earlier.
C3_AnchorsMoveForward ==
    /\ \A a \in DOMAIN calls :
          calls[a].idx0 # None => calls[a].idx0 >= calls[a].start_at
    /\ \A a, b \in DOMAIN calls :
          (a < b /\ calls[a].idx0 # None /\ calls[b].idx0 # None) =>
              calls[b].idx0 >
                  calls[a].idx0 + Len(CLUSTERS[calls[a].cluster].steps_seq) - 1

C3_Witness ==
    /\ Len(calls) = Len(CLUSTERS)
    /\ calls[1].idx0 = None
    /\ calls[2].idx0 # None
    /\ calls[3].idx0 # None
    /\ OccursAt(records, 1, 0) = FALSE
    /\ \E i \in 0..(calls[2].idx0 - 1) : OccursAt(records, 3, i)

\* what dedupe must turn the timeline before into
DedupeRelation(before, after) ==
    LET NZ == {i \in 1..Len(before) : before[i].steps # 0}
    IN  /\ Len(after) = Len(before)
        /\ \A i \in 1..Len(before) :
              before[i].steps = 0 => after[i] = before[i]
        /\ \A i \in NZ :
              IF \E j \in NZ : /\ before[j].steps = before[i].steps
                               /\ DateLess(before[j].date, before[i].date)
              THEN after[i] = [date |-> before[i].date, steps |-> 0,
                               distance_km |-> 0]
              ELSE after[i] = before[i]
        /\ \A i, j \in {x \in 1..Len(after) : after[x].steps # 0} :
              after[i].steps = after[j].steps => i = j

\* C6: dedupe keeps, for each non-zero step count, the row of the first date
\* that has it, rewrites every later row with that count to steps 0 and
\* distance 0.0 on the same date, and returns every zero-step row unchanged;
\* afterwards each non-zero step count is on at most one date.
C6_DedupeFirstWins ==
    [][pc = "dedupe" => DedupeRelation(timeline, timeline')]_vars

C6_Witness ==
    /\ pc = "done"
    /\ \E i \in 1..Len(timeline) :
          /\ timeline[i].steps = 0
          /\ timeline[i].distance_km = 0
          /\ timeline[i].date \in DOMAIN date_map
          /\ date_map[timeline[i].date].steps > 0
    /\ \E i \in 1..Len(timeline) :
          timeline[i].steps = 0 /\ timeline[i].distance_km > 0

\* every two consecutive entries of the sorted bound indices B that lie from
\* i1 to i2 are no further apart than their dates
FitsBetween(B, i1, i2) ==
    \A a \in 1..(Len(B) - 1) :
        (i1 <= B[a].idx /\ B[a + 1].idx <= i2) =>
            B[a + 1].idx - B[a].idx <= B[a + 1].dt - B[a].dt

\* C4 as claimed: every index between two bound indices gets a date strictly
\* between their dates, however many records lie between them.
C4_Original ==
    pc = "resolve" =>
        \A i1, i2 \in DOMAIN anchors :
            (i1 < i2 /\ anchors[i1] <= anchors[i2]) =>
                \A i \in (i1 + 1)..(i2 - 1) :
                    anchors[i1] < idx_to_date[i] /\ idx_to_date[i] < anchors[i2]

\* C4 as amended: every index i between two bound indices i1 < i2 gets the
\* date of the nearest bound index a <= i plus i - a days, which is strictly
\* after the date of i1; it is strictly before the date of i2 when every two
\* consecutive bound indices from i1 to i2 are no further apart than their
\* dates.
C4_InterpolationBetweenAnchors ==
    pc = "resolve" =>
        LET B == sorted_items(anchors)
        IN  \A i1, i2 \in DOMAIN anchors :
                (i1 < i2 /\ anchors[i1] <= anchors[i2]) =>
                    LET fits == FitsBetween(B, i1, i2)
                    IN  \A i \in (i1 + 1)..(i2 - 1) :
                            LET a == Max({x \in DOMAIN anchors : x <= i})
                            IN  /\ idx_to_date[i] = anchors[a] + (i - a)
                                /\ anchors[i1] < idx_to_date[i]
                                /\ fits => idx_to_date[i] < anchors[i2]

C4_Witness ==
    /\ pc = "resolve"
    /\ LET B == sorted_items(anchors)
       IN  /\ \E i1, i2 \in DOMAIN anchors :
                 /\ i1 < i2
                 /\ FitsBetween(B, i1, i2)
                 /\ \E i \in (i1 + 1)..(i2 - 1) : i \notin DOMAIN anchors
           /\ \E i1, i2 \in DOMAIN anchors : i1 < i2 /\ ~FitsBetween(B, i1, i2)

\* the indices that idx_to_date maps to the day dt
SameDay(dt) == {i \in DOMAIN idx_to_date : idx_to_date[i] = dt}

Days == {idx_to_date[i] : i \in DOMAIN idx_to_date}

Entry(i) ==
    [steps |-> records[i + 1].steps, distance_km |-> records[i + 1].distance_km]

\* C5: the entry kept for a date is the one with the greatest steps and,
\* among those, the greatest distance_km, of the records mapped to that date;
\* visiting the records in the opposite order keeps the same entries.
C5_ResolveIsOrderIndependent ==
    (pc = "insert" /\ DOMAIN idx_to_date # {}) =>
        /\ DOMAIN date_map = {strftime(dt) : dt \in Days}
        /\ \A dt \in Days :
              LET kept == date_map[strftime(dt)]
              IN  /\ \E i \in SameDay(dt) : Entry(i) = kept
                  /\ \A i \in SameDay(dt) :
                        \/ Entry(i).steps < kept.steps
                        \/ /\ Entry(i).steps = kept.steps
                           /\ Entry(i).distance_km <= kept.distance_km
        /\ date_map = resolve_in_order(records, idx_to_date,
                          [k \in 1..Len(records) |-> Len(records) - k])

C5_Witness ==
    /\ pc = "insert"
    /\ \E i, j \in DOMAIN idx_to_date :
          /\ i < j
          /\ idx_to_date[i] = idx_to_date[j]
          /\ Entry(i).steps = Entry(j).steps
          /\ Entry(i).distance_km < Entry(j).distance_km

ClusterValues ==
    {CLUSTERS[k].steps_seq[j] : k \in DOMAIN CLUSTERS, j \in 1..3}

\* the indices of the records that carry a cluster's step value, in order
ValueIndices(recs) ==
    sorted_items([i \in {x \in 0..(Len(recs) - 1) :
                            recs[x + 1].steps \in ClusterValues} |-> 0])

\* recs holds the nine cluster values exactly once each, as the three
\* triplets in configuration order, every other record being a filler whose
\* steps are none of the nine values
IsEndToEnd(recs) ==
    LET V == ValueIndices(recs)
    IN  /\ Len(V) = 9
        /\ \A k \in DOMAIN CLUSTERS : OccursAt(recs, k, V[3 * k - 2].idx)

\* the index at which cluster k's triplet starts in an end-to-end stream
TripletAt(recs, k) == ValueIndices(recs)[3 * k - 2].idx

\* all three clusters are anchored at their triplets and the final timeline
\* has the nine values on their days
EndToEndAnchored ==
    LET p(k) == TripletAt(records, k)
        d(k) == strptime(CLUSTERS[k].start_date)
    IN  \A k \in DOMAIN CLUSTERS :
            /\ calls[k].idx0 = p(k)
            /\ \A j \in 1..3 :
                  /\ RowOf(d(k) + j - 1).date = strftime(d(k) + j - 1)
                  /\ RowOf(d(k) + j - 1).steps = CLUSTERS[k].steps_seq[j]

\* the fillers are dated before, between and after the clusters' days
EndToEndFillers ==
    LET p(k) == TripletAt(records, k)
        d(k) == strptime(CLUSTERS[k].start_date)
    IN  \A i \in 0..(Len(records) - 1) :
            /\ i < p(1) => idx_to_date[i] < d(1)
            /\ \A k \in 1..2 :
                  (p(k) + 2 < i /\ i < p(k + 1)) =>
                      (d(k) + 2 < idx_to_date[i] /\ idx_to_date[i] < d(k + 1))
            /\ p(3) + 2 < i => d(3) + 2 < idx_to_date[i]

IsMainRun == cal_start = CAL_START /\ cal_end = CAL_END

\* C7 as claimed, its first part: any stream holding the three triplets in
\* order among unrelated fillers anchors all three clusters, and the final
\* timeline has the nine values on their days.
C7_Original ==
    (pc = "done" /\ IsMainRun /\ IsEndToEnd(records)) => EndToEndAnchored

\* the fillers between cluster k and cluster k + 1 are no more than the days
\* strictly between the last day of cluster k and the first of cluster k + 1
FillersFit(recs) ==
    \A k \in 1..2 :
        TripletAt(recs, k + 1) - (TripletAt(recs, k) + 3)
            <= strptime(CLUSTERS[k + 1].start_date)
               - (strptime(CLUSTERS[k].start_date) + 2) - 1

\* C7 as amended: a stream holding the three triplets in order among
\* unrelated fillers, the fillers between two consecutive clusters being no
\* more than the days strictly between those clusters, anchors all three
\* clusters; the final timeline has the nine values on their days and the
\* fillers are dated between and around them.
C7_EndToEnd ==
    (pc = "done" /\ IsMainRun /\ IsEndToEnd(records) /\ FillersFit(records))
        => (EndToEndAnchored /\ EndToEndFillers)

C7_Witness ==
    /\ pc = "done"
    /\ IsMainRun
    /\ IsEndToEnd(records)
    /\ FillersFit(records)
    /\ TripletAt(records, 1) > 0
    /\ TripletAt(records, 2) - (TripletAt(records, 1) + 3) = Fit12
    /\ TripletAt(records, 3) > TripletAt(records, 2) + 3
    /\ Len(records) > TripletAt(records, 3) + 3

\* the least index i >= start_at at which the window of recs equals seq, None
\* when there is none
LeastMatch(recs, seq, start_at) ==
    LET S == {i \in start_at..(Len(recs) - Len(seq)) :
                 \A j \in 1..Len(seq) : recs[i + j].steps = seq[j]}
    IN  IF S = {} THEN None ELSE Min(S)

\* C10: find_sequence_index_after returns the least index at or after
\* search_from where the records' steps equal the sequence, and None exactly
\* when there is none; on None the pass binds nothing, keeps search_from and
\* the earlier bindings, and the loop goes on with the next cluster.
C10_FindLeastAndSkip ==
    /\ [](\A a \in DOMAIN calls :
             calls[a].idx0 = LeastMatch(records,
                                 CLUSTERS[calls[a].cluster].steps_seq,
                                 calls[a].start_at))
    /\ [][(/\ pc = "anchor"
           /\ ci <= Len(CLUSTERS)
           /\ LeastMatch(records, CLUSTERS[ci].steps_seq, search_from) = None)
          => /\ anchors' = anchors
             /\ search_from' = search_from
             /\ calls' = Append(calls, [cluster |-> ci, start_at |-> search_from,
                                        idx0 |-> None])
             /\ ci' = ci + 1
             /\ pc' = "anchor"]_vars

C10_Witness ==
    /\ Len(calls) = Len(CLUSTERS)
    /\ calls[1].idx0 > 0
    /\ calls[2].idx0 = None
    /\ calls[3].idx0 = Len(records) - 3
    /\ \E i \in 0..(calls[1].idx0 - 1) : OccursAt(records, 2, i)

\* the number of places of the list recs that hold r
count_of(recs, r) == Cardinality({i \in 1..Len(recs) : recs[i] = r})

\* the first place of the list recs that holds recs[i]
first_place(recs, i) == Min({j \in 1..Len(recs) : recs[j] = recs[i]})

\* the lists that hold each i of DOMAIN left exactly left[i] times
RECURSIVE arrangements(_)
arrangements(left) ==
    IF \A i \in DOMAIN left : left[i] = 0 THEN {<<>>}
    ELSE UNION {{<<i>> \o rest :
                    rest \in arrangements([left EXCEPT ![i] = @ - 1])} :
                i \in {x \in DOMAIN left : left[x] > 0}}

\* the orders in which the records of the list recs can be given, each a
\* list of places of recs; equal records are told by their first place
Orders(recs) ==
    arrangements([i \in {first_place(recs, j) : j \in 1..Len(recs)} |->
                     count_of(recs, recs[i])])

\* the records of recs in the order given
Given(recs, order) == [k \in 1..Len(order) |-> recs[order[k]]]

\* the time the claim orders a record by: its raw_date when it is there and
\* is not 1970-01-01, else its modification time
ClaimedTime(r) ==
    IF r.raw_date # NoDate /\ r.raw_date # <<1970, 1, 1>>
    THEN <<strptime(r.raw_date), 0, 0>>
    ELSE <<719163 + r.mtime.s \div 86400, r.mtime.s % 86400, r.mtime.ms>>

\* the time a record is ordered by: its raw_date when it is there, is not
\* 1970-01-01 and has a four-digit year, else its modification time
OrderTime(r) ==
    IF r.raw_date # NoDate /\ r.raw_date # <<1970, 1, 1>> /\ r.raw_date[1] >= 1000
    THEN <<strptime(r.raw_date), 0, 0>>
    ELSE <<719163 + r.mtime.s \div 86400, r.mtime.s % 86400, r.mtime.ms>>

\* a comes before b in time, or at the same time with the path p before q
\* (or the same path)
InOrder(a, p, b, q) ==
    \/ a[1] < b[1]
    \/ a[1] = b[1] /\ a[2] < b[2]
    \/ a[1] = b[1] /\ a[2] = b[2] /\ a[3] < b[3]
    \/ a = b /\ (p = q \/ StrLess(p, q))

\* C8 as claimed: the sorted records ascend by raw_date when it is present
\* and not 1970-01-01, else by modification time, then by path.
C8_Original ==
    pc = "sorted" =>
        \A i, j \in 1..Len(records) :
            i < j => InOrder(ClaimedTime(records[i]), records[i].file,
                             ClaimedTime(records[j]), records[j].file)

\* C8 as amended: the sorted records are the same for every order in which
\* the parsed records are given, and they ascend by raw_date when it is
\* present, not 1970-01-01 and of a four-digit year, else by modification
\* time, then by path.
C8_OrderIsDeterministic ==
    pc = "sorted" =>
        /\ \A order \in Orders(parsed) :
              sort_records(Given(parsed, order)) = records
        /\ Len(records) = Len(parsed)
        /\ \A i, j \in 1..Len(records) :
              i < j => InOrder(OrderTime(records[i]), records[i].file,
                               OrderTime(records[j]), records[j].file)

\* three sorted records that were parsed in another order: one dated in the
\* year 999 placed by its modification time, one dated 1970-01-01 and one
\* without a date
C8_Witness ==
    /\ pc = "sorted"
    /\ Len(records) = 3
    /\ records # parsed
    /\ \E i \in 1..3 : records[i].raw_date = <<999, 6, 1>>
    /\ \E i \in 1..3 : records[i].raw_date = <<1970, 1, 1>>
    /\ \E i \in 1..3 : records[i].raw_date = NoDate

\* C9 as claimed: every record that process_binning_json returns has
\* steps > 0 or distance_km > 0.
C9_RecordsAreNotEmpty ==
    \A i \in 1..Len(parsed) : parsed[i].steps > 0 \/ parsed[i].distance_km > 0

-----------------------------------------------------------------------------
\* the indices bound by the matched clusters, with the cluster dates
BoundDates ==
    [i \in UNION {calls[a].idx0 .. (calls[a].idx0
                       + Len(CLUSTERS[calls[a].cluster].steps_seq) - 1) :
                   a \in {b \in DOMAIN calls : calls[b].idx0 # None}} |->
        LET a == CHOOSE b \in DOMAIN calls :
                    /\ calls[b].idx0 # None
                    /\ calls[b].idx0 <= i
                    /\ i < calls[b].idx0 + Len(CLUSTERS[calls[b].cluster].steps_seq)
        IN  strptime(CLUSTERS[calls[a].cluster].start_date) + (i - calls[a].idx0)]

\* C11: when at least one cluster matched, idx_to_date gives every record
\* index 0..n-1 one date: a bound index has its cluster date, an index below
\* the first bound index f has date(f) - (f - index), every other unbound
\* index has date(a) + (index - a) for the greatest bound index a below it.
C11_EveryIndexDated ==
    pc = "resolve" =>
        LET bound == BoundDates
            f     == Min(DOMAIN bound)
        IN  /\ DOMAIN bound # {}
            /\ DOMAIN idx_to_date = 0..(Len(records) - 1)
            /\ \A i \in DOMAIN idx_to_date :
                   IF i \in DOMAIN bound THEN idx_to_date[i] = bound[i]
                   ELSE IF i < f THEN idx_to_date[i] = bound[f] - (f - i)
                   ELSE LET a == Max({x \in DOMAIN bound : x < i})
                        IN  idx_to_date[i] = bound[a] + (i - a)

\* a list with unbound indices before the first bound index, between two
\* bound indices and after the last one
C11_Witness ==
    /\ pc = "resolve"
    /\ LET bound == DOMAIN BoundDates
       IN  /\ Min(bound) > 0
           /\ Max(bound) < Len(records) - 1
           /\ \E i \in Min(bound)..Max(bound) : i \notin bound

-----------------------------------------------------------------------------
\* the days of the matched clusters (every configured cluster has the length
\* of the first): the date, the step count the cluster gives for it and the
\* record index bound to it
AnchoredDays ==
    {[d |-> strptime(CLUSTERS[calls[a].cluster].start_date) + k,
      v |-> CLUSTERS[calls[a].cluster].steps_seq[k + 1],
      i |-> calls[a].idx0 + k] :
        a \in {b \in DOMAIN calls : calls[b].idx0 # None},
        k \in 0..(Len(CLUSTERS[1].steps_seq) - 1)}

InCalendar(dt) == cal_start <= dt /\ dt <= cal_end

\* the largest step count of the records interpolated onto the day dt
TopSteps(dt) == Max({records[j + 1].steps : j \in SameDay(dt)})

\* an earlier day of the timeline shows the step count s
ShownEarlier(dt, s) == \E e \in cal_start..(dt - 1) : RowOf(e).steps = s

\* C12 as claimed: the final timeline has the cluster's step count on every
\* day of every matched cluster.
C12_Original ==
    pc = "done" =>
        \A x \in AnchoredDays :
            InCalendar(x.d) => RowOf(x.d).steps = x.v

\* C12 as amended: on every day of a matched cluster the final timeline has
\* the largest step count of the records interpolated onto that day, the
\* cluster's record among them, or 0 when an earlier day already shows that
\* count; so it has the cluster's step count when no record on that day has
\* more steps and no earlier day shows the same count.
C12_AnchoredDates ==
    pc = "done" =>
        \A x \in AnchoredDays :
            InCalendar(x.d) =>
                LET top == TopSteps(x.d)
                IN  /\ x.i \in SameDay(x.d)
                    /\ records[x.i + 1].steps = x.v
                    /\ top >= x.v
                    /\ RowOf(x.d).steps =
                          IF ShownEarlier(x.d, top) THEN 0 ELSE top
                    /\ (top = x.v /\ ~ShownEarlier(x.d, x.v))
                          => RowOf(x.d).steps = x.v

\* a finished run where a cluster day shared with a smaller interpolated
\* record keeps the cluster's count, next to cluster days that hold one record
C12_Witness ==
    /\ pc = "done"
    /\ \E x \in AnchoredDays :
          /\ InCalendar(x.d)
          /\ Cardinality(SameDay(x.d)) > 1
          /\ TopSteps(x.d) = x.v
          /\ RowOf(x.d).steps = x.v
    /\ \E x \in AnchoredDays :
          /\ InCalendar(x.d)
          /\ SameDay(x.d) = {x.i}
          /\ RowOf(x.d).steps = x.v

====
